---- MODULE Spec2Model ----
(***************************************************************************)
(* Model of src/app.py: a Streamlit script that fetches NOAA NWPS gauge     *)
(* telemetry for a fixed roster of stations, keeps the fetched batch in     *)
(* st.session_state behind an st.cache_data(ttl=600) memo, and renders a    *)
(* marker map plus a per-station detail chart.                              *)
(*                                                                          *)
(* Four specifications share the module:                                    *)
(*   Spec        the script runs of the sessions against the memo          *)
(*               (lines 22, 51-52, 71-75);                                  *)
(*   SpecFetch   one call of fetch_noaa_data on its thread pool             *)
(*               (lines 52-69), for every combination of outcomes;         *)
(*   SpecPool    the same call over more stations than the pool has        *)
(*               workers, with fair scheduling;                            *)
(*   SpecRender  the marker loop and the Station Data Viewer applied to a   *)
(*               batch (lines 96-168).                                      *)
(***************************************************************************)
EXTENDS Integers, Sequences, FiniteSets, TLC

VARIABLES now, memo, sess, fetchCount,
          stations, transport, taken, running, future, collected, responses,
          requests, fpc,
          stations_df, noaa_data, selected_station, row, markers,
          valid_count, counts, detail, rpc

appVars == <<now, memo, sess, fetchCount>>

fetchVars ==
  <<stations, transport, taken, running, future, collected, responses,
    requests, fpc>>

renderVars ==
  <<stations_df, noaa_data, selected_station, row, markers, valid_count,
    counts, detail, rpc>>

vars == <<appVars, fetchVars, renderVars>>

(***************************************************************************)
(* Python values as the script sees them: what r.json() can return and      *)
(* what the script builds itself                                            *)
(***************************************************************************)

\* A dict (a JSON object), None (JSON null) and a list (a JSON array).
Dict(d) == [t |-> "dict", d |-> d]

PyNone == [t |-> "none"]

PyList(s) == [t |-> "list", items |-> s]

EmptyDict == Dict(<<>>)

\* bool(v): None, {} and [] are false.
Truthy(v) ==
  CASE v.t = "dict" -> DOMAIN v.d # {}
    [] v.t = "list" -> Len(v.items) > 0
    [] OTHER -> FALSE

\* d.get(k, default) on the members of a dict.
Get(d, k, default) == IF k \in DOMAIN d THEN d[k] ELSE default

(***************************************************************************)
(* Script runs, session state and the TTL memo                              *)
(***************************************************************************)

\* st.cache_data(ttl=600): seconds a memoised return value stays valid.
TTL == 600

\* Bounds of the model.
MaxTicks == 4
MaxFetches == 3

\* The clock advances in steps of half a TTL.
TickStep == TTL \div 2

\* Browser sessions; each has its own st.session_state.
Sessions == {"s1", "s2"}

\* A batch is identified by the fetch cycle that produced it (gen) and the
\* time its value was written to the memo (at).
NoBatch == [gen |-> 0, at |-> 0]

NoMemo == [has |-> FALSE, batch |-> NoBatch]

IdleSession ==
  [pc |-> "idle", refresh |-> FALSE, click |-> FALSE, has |-> FALSE,
   data |-> NoBatch, clickDuring |-> 0, during |-> 0, lastPlain |-> FALSE]

\* Fields of a session: pc is the script's position, refresh the value line
\* 22 gave the button in the current run, click a queued button press, has
\* and data the "noaa_data" entry of st.session_state. The other fields are
\* history: clickDuring/during hold the number of the fetch cycle that was
\* in flight when the press handled by the current run was made (0: none),
\* lastPlain says that the session's previous run was one without refresh.

\* A call of fetch_noaa_data is computing (the memo's compute lock is held).
InFlight == \E s \in Sessions : sess[s].pc = "fetching"

\* Line 71: `refresh or "noaa_data" not in st.session_state`.
NeedsFetch(s) == sess[s].refresh \/ ~sess[s].has

\* A comparison of the age with the TTL that is turned around.
CacheHitInverted == memo.has /\ now - memo.batch.at > TTL

\* Line 51: the memo holds a value for the argument list that is younger
\* than the TTL.
CacheHit == memo.has /\ now - memo.batch.at < TTL

AppIdle ==
  /\ now = 0
  /\ memo = NoMemo
  /\ sess = [s \in Sessions |-> IdleSession]
  /\ fetchCount = 0

\* Wall-clock time passes.
Tick ==
  /\ now + TickStep <= MaxTicks * TickStep
  /\ now' = now + TickStep
  /\ UNCHANGED <<memo, sess, fetchCount>>
  /\ UNCHANGED <<fetchVars, renderVars>>

\* Line 22: the user presses the "Refresh Data" button of a page that has
\* been drawn. The press is queued until the session's next script run.
ClickRefresh(s) ==
  /\ sess[s].pc # "idle" \/ sess[s].has
  /\ ~sess[s].click
  /\ sess' = [sess EXCEPT ![s].click = TRUE,
                          ![s].clickDuring = IF InFlight THEN fetchCount ELSE 0]
  /\ UNCHANGED <<now, memo, fetchCount>>
  /\ UNCHANGED <<fetchVars, renderVars>>

\* A script run starts (page load, any widget interaction, or a queued
\* button press); line 22 gives `refresh` the button's value for this run.
BeginRun(s) ==
  /\ sess[s].pc = "idle"
  /\ sess' = [sess EXCEPT ![s].pc = "line71",
                          ![s].refresh = sess[s].click,
                          ![s].click = FALSE,
                          ![s].during = sess[s].clickDuring,
                          ![s].clickDuring = 0]
  /\ UNCHANGED <<now, memo, fetchCount>>
  /\ UNCHANGED <<fetchVars, renderVars>>

\* Lines 71, 75: no refresh and the session already holds a batch; the
\* stored batch is used as it is.
UseSessionState(s) ==
  /\ sess[s].pc = "line71"
  /\ ~NeedsFetch(s)
  /\ sess' = [sess EXCEPT ![s].pc = "render"]
  /\ UNCHANGED <<now, memo, fetchCount>>
  /\ UNCHANGED <<fetchVars, renderVars>>

\* Lines 71-73, 51: fetch_noaa_data is called and the memo answers.
CallMemoHit(s) ==
  /\ sess[s].pc = "line71"
  /\ NeedsFetch(s)
  /\ CacheHit
  /\ sess' = [sess EXCEPT ![s].pc = "render",
                          ![s].has = TRUE,
                          ![s].data = memo.batch]
  /\ UNCHANGED <<now, memo, fetchCount>>
  /\ UNCHANGED <<fetchVars, renderVars>>

\* Lines 71-73, 51-52: fetch_noaa_data is called, the memo has no valid
\* value, and the function body starts a fetch cycle.
CallMemoMiss(s) ==
  /\ sess[s].pc = "line71"
  /\ NeedsFetch(s)
  /\ ~CacheHit
  /\ ~InFlight
  /\ fetchCount < MaxFetches
  /\ fetchCount' = fetchCount + 1
  /\ sess' = [sess EXCEPT ![s].pc = "fetching"]
  /\ UNCHANGED <<now, memo>>
  /\ UNCHANGED <<fetchVars, renderVars>>

\* Lines 69, 73: the function returns; the memo keeps the value with the
\* time of the write and the session stores it.
FetchReturns(s) ==
  /\ sess[s].pc = "fetching"
  /\ LET b == [gen |-> fetchCount, at |-> now]
     IN /\ memo' = [has |-> TRUE, batch |-> b]
        /\ sess' = [sess EXCEPT ![s].pc = "render",
                                ![s].has = TRUE,
                                ![s].data = b]
  /\ UNCHANGED <<now, fetchCount>>
  /\ UNCHANGED <<fetchVars, renderVars>>

\* Lines 75-168: the page is drawn from `responses` and the run ends.
FinishRun(s) ==
  /\ sess[s].pc = "render"
  /\ sess' = [sess EXCEPT ![s].pc = "idle",
                          ![s].refresh = FALSE,
                          ![s].during = 0,
                          ![s].lastPlain = ~sess[s].refresh]
  /\ UNCHANGED <<now, memo, fetchCount>>
  /\ UNCHANGED <<fetchVars, renderVars>>

AppNext ==
  \/ Tick
  \/ \E s \in Sessions : ClickRefresh(s)
  \/ \E s \in Sessions : BeginRun(s)
  \/ \E s \in Sessions : UseSessionState(s)
  \/ \E s \in Sessions : CallMemoHit(s)
  \/ \E s \in Sessions : CallMemoMiss(s)
  \/ \E s \in Sessions : FetchReturns(s)
  \/ \E s \in Sessions : FinishRun(s)


(***************************************************************************)
(* fetch_noaa_data: one fetch cycle on the thread pool                      *)
(***************************************************************************)

\* Line 65: ThreadPoolExecutor(max_workers=10).
MaxWorkers == 10

\* Bounds of the model: the number of stations of a cycle whose transport
\* outcomes are enumerated in full, and of a cycle that overfills the pool.
NStations == 3
NPool == 11

\* Station ids are opaque strings (lines 26-31 give the first of them).
Roster ==
  <<"03207965", "03208000", "03209325", "03209410", "371144082383401",
    "03210000", "03211500", "03212500", "03213700", "03214500",
    "03215000", "03216000", "03216350", "03216500", "03216600">>

\* What the remote end does with one GET (lines 59-61):
\*   "ok"        2xx, a JSON object with the gauge's fields;
\*   "ok_errkey" 2xx, a JSON object that itself has an "error" member;
\*   "http500"   a non-2xx status, raise_for_status raises;
\*   "conn"      the connection fails, requests.get raises;
\*   "timeout"   no answer within timeout=10, requests.get raises;
\*   "notjson"   2xx with a body that is not JSON, r.json() raises.
Outcomes == {"ok", "ok_errkey", "http500", "conn", "timeout", "notjson"}

\* The outcomes in which a statement of the try block raises.
Raising == {"http500", "conn", "timeout", "notjson"}

\* Line 63: {"error": str(e)}.
ErrEntry(msg) == Dict([error |-> msg])

\* str(e) of the exception each raising outcome produces.
Message(o) ==
  CASE o = "http500" -> "500 Server Error"
    [] o = "conn" -> "Connection refused"
    [] o = "timeout" -> "Read timed out"
    [] OTHER -> "Expecting value"

\* The JSON object served for a station; its readings carry the station's
\* own id so that entries of different stations differ.
Payload(id, o) ==
  IF o = "ok_errkey"
    THEN Dict([error |-> "degraded", primary |-> id])
    ELSE Dict([validTime |-> "2024-01-01T00:00:00Z", primary |-> id])

\* Lines 56-63: get_data(site_id) -> (site_id, data).
GetData(id) ==
  IF transport[id] \in Raising
    THEN <<id, ErrEntry(Message(transport[id]))>>
    ELSE <<id, Payload(id, transport[id])>>

Ids == {stations[i] : i \in 1..Len(stations)}

\* A pool that starts a thread for every queued task.
PoolUnbounded == TRUE

\* Line 65: a worker thread is free to start another call.
PoolHasRoom == Cardinality(running) < MaxWorkers

\* A loop that stops at the first result it is given.
FirstCollected == collected >= 1

\* Lines 66-67: the loop over executor.map has consumed every result.
AllCollected == collected = Len(stations)

FetchIdle ==
  /\ stations = <<>>
  /\ transport = <<>>
  /\ taken = 0
  /\ running = {}
  /\ future = <<>>
  /\ collected = 0
  /\ responses = <<>>
  /\ requests = <<>>
  /\ fpc = "idle"

\* Lines 52-54, 65-66: the call starts with `stations` and executor.map
\* queues one get_data task per element, in order.
FetchStart(n, tr) ==
  /\ stations = SubSeq(Roster, 1, n)
  /\ transport = tr
  /\ taken = 0
  /\ running = {}
  /\ future = <<>>
  /\ collected = 0
  /\ responses = <<>>
  /\ requests = [id \in DOMAIN tr |-> 0]
  /\ fpc = "map"

\* Cycles over NStations ids with every combination of outcomes.
SmallCycle ==
  \E tr \in [{Roster[i] : i \in 1..NStations} -> Outcomes] :
    FetchStart(NStations, tr)

\* Cycles over NPool ids where every k-th request fails (k = 0: none).
PoolCycle ==
  \E k \in 0..3 :
    FetchStart(NPool,
               [id \in {Roster[i] : i \in 1..NPool} |->
                  IF k > 0 /\ (CHOOSE i \in 1..NPool : Roster[i] = id) % k = 0
                    THEN "http500" ELSE "ok"])

\* Lines 57-59: a free worker takes the oldest queued task and issues its GET.
WorkerTake ==
  /\ fpc = "map"
  /\ taken < Len(stations)
  /\ PoolHasRoom
  /\ taken' = taken + 1
  /\ running' = running \cup {taken + 1}
  /\ requests' = [requests EXCEPT ![stations[taken + 1]] = @ + 1]
  /\ UNCHANGED <<stations, transport, future, collected, responses, fpc>>
  /\ UNCHANGED <<appVars, renderVars>>

\* Lines 59-63: a request in flight resolves and get_data returns; the
\* worker is free again.
RequestResolves(i) ==
  /\ i \in running
  /\ running' = running \ {i}
  /\ future' = future @@ (i :> GetData(stations[i]))
  /\ UNCHANGED <<stations, transport, taken, collected, responses, requests, fpc>>
  /\ UNCHANGED <<appVars, renderVars>>

\* Lines 66-67: executor.map yields results in the order of `stations`; the
\* loop stores the next one as soon as its task has finished.
Collect ==
  /\ fpc = "map"
  /\ collected < Len(stations)
  /\ (collected + 1) \in DOMAIN future
  /\ LET r == future[collected + 1]
     IN responses' = [id \in DOMAIN responses \cup {r[1]} |->
                        IF id = r[1] THEN r[2] ELSE responses[id]]
  /\ collected' = collected + 1
  /\ UNCHANGED <<stations, transport, taken, running, future, requests, fpc>>
  /\ UNCHANGED <<appVars, renderVars>>

\* Lines 65, 69: the loop has ended, the with block has waited for every
\* queued task to finish, and the function returns responses.
FetchReturn ==
  /\ fpc = "map"
  /\ AllCollected
  /\ taken = Len(stations)
  /\ running = {}
  /\ fpc' = "returned"
  /\ UNCHANGED <<stations, transport, taken, running, future, collected,
                 responses, requests>>
  /\ UNCHANGED <<appVars, renderVars>>

FetchNext ==
  \/ WorkerTake
  \/ \E i \in running : RequestResolves(i)
  \/ Collect
  \/ FetchReturn

(***************************************************************************)
(* The page: marker loop, counts and Station Data Viewer                    *)
(***************************************************************************)

\* Bound of the model: rows of stations_df.
NRows == 2

\* Lines 25-48: the rows of stations_df (site_no kept as a string).
RosterRows ==
  <<[site_no |-> "03207965", station_nm |-> "GRAPEVINE CREEK NEAR PHYLLIS, KY"],
    [site_no |-> "03208000", station_nm |-> "LEVISA FORK BELOW FISHTRAP DAM NEAR MILLARD, KY"],
    [site_no |-> "03209325", station_nm |-> "ELKHORN CREEK AT BURDINE, KY"],
    [site_no |-> "03209410", station_nm |-> "RUSSELL FORK AT CEDARVILLE, KY"]>>

\* Timestamps as the API writes them, and text that is no timestamp.
T0 == "2024-01-01T00:00:00Z"
T1 == "2024-01-01T01:00:00Z"
T2 == "2024-01-01T02:00:00Z"
BadTime == "bad"

\* NaT, and NaN for a cell a row has no value for.
NaT == -1
NaN == "NaN"

\* Line 154: pd.to_datetime(..., errors="coerce") of one cell, as seconds
\* after 2024-01-01T00:00:00Z; text that does not parse, and NaN, give NaT.
ToDatetime(s) ==
  CASE s = T0 -> 0
    [] s = T1 -> 3600
    [] s = T2 -> 7200
    [] OTHER -> NaT

\* An observation is a JSON object; its members are kept in the order the
\* provider wrote them, as <<name, value>> pairs.
Obs(ts, v) == << <<"validTime", ts>>, <<"primary", v>> >>

Series ==
  { << Obs(T0, "1.2"), Obs(BadTime, "9"), Obs(T1, "1.4") >>,
    << Obs(T2, "1.6"), Obs(T0, "1.2"), Obs(T1, "1.4") >>,
    << Obs(BadTime, "9") >>,
    << << <<"validTime", T0>>, <<"secondary", "5">> >> >>,
    << << <<"primary", "3">> >> >>,
    << >> }

FullPayload(series) ==
  Dict([validTime |-> T1, generatedTime |-> T1, primary |-> "1.4",
        secondary |-> "250", observed |-> Dict([data |-> PyList(series)])])

\* The values a station's entry of the batch can have: an error entry of
\* line 63, or whatever JSON value a 2xx response carried.
Entries ==
  {ErrEntry("500 Server Error")}
    \cup {FullPayload(s) : s \in Series}
    \cup {Dict([primary |-> "3.1"]),
          EmptyDict,
          Dict([observed |-> EmptyDict]),
          Dict([observed |-> PyNone]),
          Dict([error |-> "degraded", primary |-> "3.1"]),
          PyNone,
          PyList(<<>>)}

\* Lines 101-118: one pass of the marker loop for a row and the batch.
\* crash: the pass raises; counted: valid_count is incremented.
MarkerOf(r, batch) ==
  LET site == r.site_no
      data == IF site \in DOMAIN batch THEN batch[site] ELSE EmptyDict
      head == [site |-> site, name |-> r.station_nm]
      raised == [crash |-> TRUE, counted |-> FALSE, marker |-> head]
  IN IF Truthy(data) /\ (data.t = "dict" => "error" \notin DOMAIN data.d)
       THEN IF data.t # "dict"
              THEN raised
              ELSE LET observed == Get(data.d, "observed", EmptyDict)
                   IN IF observed.t # "dict"
                        THEN raised
                        ELSE LET obs_data == Get(observed.d, "data", PyList(<<>>))
                             IN IF Truthy(obs_data) /\ obs_data.t # "list"
                                  THEN raised
                                  ELSE [crash |-> FALSE, counted |-> TRUE,
                                        marker |->
                                          [site |-> site, name |-> r.station_nm,
                                           color |-> "blue",
                                           validTime |-> Get(data.d, "validTime", "N/A"),
                                           generatedTime |-> Get(data.d, "generatedTime", "N/A"),
                                           primary |-> Get(data.d, "primary", "N/A"),
                                           secondary |-> Get(data.d, "secondary", "N/A"),
                                           recent |-> IF Truthy(obs_data)
                                                        THEN <<obs_data.items[Len(obs_data.items)]>>
                                                        ELSE <<>>]]
       ELSE IF data.t # "dict"
              THEN raised
              ELSE [crash |-> FALSE, counted |-> FALSE,
                    marker |-> [site |-> site, name |-> r.station_nm,
                                color |-> "red", note |-> "No API data",
                                error |-> Get(data.d, "error", "")]]

\* pd.DataFrame(list of dicts): the column names, in order of first
\* appearance.
RECURSIVE AddNames(_, _)
AddNames(cols, pairs) ==
  IF pairs = <<>>
    THEN cols
    ELSE AddNames(IF \E i \in 1..Len(cols) : cols[i] = Head(pairs)[1]
                    THEN cols ELSE Append(cols, Head(pairs)[1]),
                  Tail(pairs))

RECURSIVE Columns(_)
Columns(rows) ==
  IF rows = <<>> THEN <<>>
  ELSE AddNames(Columns(SubSeq(rows, 1, Len(rows) - 1)), rows[Len(rows)])

HasColumn(cols, c) == \E i \in 1..Len(cols) : cols[i] = c

\* The cell of a row in a column; NaN when the observation has no such
\* member.
Cell(obs, c) ==
  IF \E i \in 1..Len(obs) : obs[i][1] = c
    THEN obs[CHOOSE i \in 1..Len(obs) : obs[i][1] = c][2]
    ELSE NaN

\* Line 154: the "time" cell of a row. obs_df.get("validTime") is None when
\* no row has the member, and the column is then all missing.
TimeOf(cols, obs) ==
  IF HasColumn(cols, "validTime") THEN ToDatetime(Cell(obs, "validTime")) ELSE NaT

\* Lines 152-164: the chart of a non-empty frame. Rows whose time is NaT are
\* dropped; px.line draws the remaining rows in the order of the frame.
ChartOf(rows) ==
  LET cols == Columns(rows)
      kept == SelectSeq(rows, LAMBDA o : TimeOf(cols, o) # NaT)
      cols2 == IF HasColumn(cols, "time") THEN cols ELSE Append(cols, "time")
      y_col == IF HasColumn(cols2, "primary") THEN "primary" ELSE cols2[2]
  IN [kind |-> "chart", y_col |-> y_col,
      points |-> [i \in 1..Len(kept) |->
                    [time |-> TimeOf(cols, kept[i]),
                     y |-> IF y_col = "time" THEN Cell(kept[i], "validTime")
                           ELSE Cell(kept[i], y_col)]]]

Warning(text) == [kind |-> "warning", text |-> text]

Raised == [kind |-> "raised"]

\* Lines 143-168: the Station Data Viewer for the selected station.
DetailOf(sel, batch) ==
  LET data == IF sel \in DOMAIN batch THEN batch[sel] ELSE PyNone
      noData == Warning("No data available or fetch error for this station.")
      noObs == Warning("No observation data available for this station.")
  IN IF ~Truthy(data) \/ data.t # "dict" THEN noData
     ELSE IF "error" \in DOMAIN data.d \/ "observed" \notin DOMAIN data.d THEN noData
     ELSE LET observed == data.d["observed"]
          IN IF observed.t = "none" THEN Raised
             ELSE IF observed.t # "dict" \/ "data" \notin DOMAIN observed.d THEN noData
             ELSE LET series == observed.d["data"]
                  IN IF series.t = "dict" THEN (IF Truthy(series) THEN Raised ELSE noObs)
                     ELSE IF series.t = "none" THEN noObs
                     ELSE IF Len(series.items) = 0 \/ Columns(series.items) = <<>>
                            THEN noObs
                            ELSE ChartOf(series.items)

RenderIdle ==
  /\ stations_df = <<>>
  /\ noaa_data = <<>>
  /\ selected_station = ""
  /\ row = 0
  /\ markers = <<>>
  /\ valid_count = 0
  /\ counts = <<>>
  /\ detail = <<>>
  /\ rpc = "idle"

\* Lines 75, 96, 141: a page is drawn for a batch that holds an entry for
\* some of the stations, with one of the stations selected.
PageStart ==
  /\ stations_df = SubSeq(RosterRows, 1, NRows)
  /\ \E covered \in SUBSET {RosterRows[i].site_no : i \in 1..NRows} :
       noaa_data \in [covered -> Entries]
  /\ selected_station \in {RosterRows[i].site_no : i \in 1..NRows}
  /\ row = 1
  /\ markers = <<>>
  /\ valid_count = 0
  /\ counts = <<>>
  /\ detail = <<>>
  /\ rpc = "markers"

\* Lines 98-128: one iteration of the marker loop.
MarkerRow ==
  /\ rpc = "markers"
  /\ row <= Len(stations_df)
  /\ LET m == MarkerOf(stations_df[row], noaa_data)
     IN IF m.crash
          THEN /\ rpc' = "raised"
               /\ UNCHANGED <<row, markers, valid_count>>
          ELSE /\ markers' = Append(markers, m.marker)
               /\ valid_count' = valid_count + (IF m.counted THEN 1 ELSE 0)
               /\ row' = row + 1
               /\ rpc' = rpc
  /\ UNCHANGED <<stations_df, noaa_data, selected_station, counts, detail>>
  /\ UNCHANGED <<appVars, fetchVars>>

\* Lines 133-137: the counts line and the map.
ShowCounts ==
  /\ rpc = "markers"
  /\ row > Len(stations_df)
  /\ counts' = [total |-> Len(stations_df), successful |-> valid_count,
                failed |-> Len(stations_df) - valid_count]
  /\ rpc' = "viewer"
  /\ UNCHANGED <<stations_df, noaa_data, selected_station, row, markers,
                 valid_count, detail>>
  /\ UNCHANGED <<appVars, fetchVars>>

\* Lines 140-168: the sidebar.
StationDataViewer ==
  /\ rpc = "viewer"
  /\ detail' = DetailOf(selected_station, noaa_data)
  /\ rpc' = IF detail'.kind = "raised" THEN "raised" ELSE "done"
  /\ UNCHANGED <<stations_df, noaa_data, selected_station, row, markers,
                 valid_count, counts>>
  /\ UNCHANGED <<appVars, fetchVars>>

RenderNext ==
  \/ MarkerRow
  \/ ShowCounts
  \/ StationDataViewer

(***************************************************************************)
(* Specifications                                                           *)
(***************************************************************************)

AppInit == AppIdle /\ FetchIdle /\ RenderIdle

Spec == AppInit /\ [][AppNext]_vars

FetchInit == AppIdle /\ SmallCycle /\ RenderIdle

SpecFetch == FetchInit /\ [][FetchNext]_vars

RenderInit == AppIdle /\ FetchIdle /\ PageStart

SpecRender == RenderInit /\ [][RenderNext]_vars

PoolInit == AppIdle /\ PoolCycle /\ RenderIdle

\* Worker threads and the calling thread keep running, and every GET ends
\* (with an answer, an error or the 10 s timeout), so a cycle that can take
\* a step eventually does.
SpecPool == PoolInit /\ [][FetchNext]_vars /\ WF_vars(FetchNext)

(***************************************************************************)
(* Claims about a fetch cycle (specifications SpecFetch and SpecPool)       *)
(***************************************************************************)

\* Lines 105, 147: an entry is taken for a failure when it has an "error"
\* member.
IsErr(e) == e.t = "dict" /\ "error" \in DOMAIN e.d

AllResolved ==
  /\ taken = Len(stations)
  /\ running = {}
  /\ DOMAIN future = 1..Len(stations)

\* C4 (as claimed): the cycle returns only when every request has resolved,
\* the batch has N entries, as many of them errors as requests failed with a
\* non-2xx status, a network error or a timeout, and every other entry is
\* the payload returned for its own id.
C4_FailuresCounted ==
  fpc = "returned" =>
    LET failed == {id \in Ids : transport[id] \in {"http500", "conn", "timeout"}}
    IN /\ AllResolved
       /\ DOMAIN responses = Ids
       /\ Cardinality(Ids) = Len(stations)
       /\ Cardinality({id \in Ids : IsErr(responses[id])}) = Cardinality(failed)
       /\ \A id \in Ids \ failed : responses[id] = Payload(id, transport[id])

\* C4 (amended): the cycle returns only when every request has resolved, the
\* batch has N entries, the entry of each id whose request raised (non-2xx
\* status, network error, timeout, or a 2xx body that is not JSON) is the
\* error entry with that exception's message, and the entry of every other
\* id is exactly the payload returned for its own id.
C4_PartialFailureIsolated ==
  fpc = "returned" =>
    /\ AllResolved
    /\ DOMAIN responses = Ids
    /\ Cardinality(Ids) = Len(stations)
    /\ \A id \in Ids :
         responses[id] = IF transport[id] \in Raising
                           THEN ErrEntry(Message(transport[id]))
                           ELSE Payload(id, transport[id])

\* C4 witness: a returned cycle in which one request got a non-JSON body,
\* one failed with a status, and one succeeded.
C4_Witness ==
  /\ fpc = "returned"
  /\ \E a, b, c \in Ids :
       /\ transport[a] = "notjson"
       /\ transport[b] = "http500"
       /\ transport[c] = "ok"
       /\ IsErr(responses[a]) /\ IsErr(responses[b]) /\ ~IsErr(responses[c])

\* C9: at every moment at most MaxWorkers requests are in flight and no id
\* has been requested more than once; when the cycle has returned every id
\* has been requested exactly once and has resolved; and the cycle does
\* return.
C9_BoundedPoolEachOnce ==
  /\ [](/\ Cardinality(running) <= MaxWorkers
        /\ \A id \in Ids : requests[id] <= 1
        /\ fpc = "returned" =>
             /\ AllResolved
             /\ \A id \in Ids : requests[id] = 1)
  /\ <>(fpc = "returned")

\* C9 witness: the pool is full, one of the requests in flight is going to
\* fail, and a further id is still queued.
C9_Witness ==
  /\ Cardinality(running) = MaxWorkers
  /\ taken < Len(stations)
  /\ \E i \in running : transport[stations[i]] = "http500"

(***************************************************************************)
(* Claims about the page (specification SpecRender)                         *)
(***************************************************************************)

\* The batch's entry for the station of row i.
HasEntry(i) == stations_df[i].site_no \in DOMAIN noaa_data

EntryOf(i) == noaa_data[stations_df[i].site_no]

\* A JSON object that was served with a 2xx status and is not one of the
\* script's own error entries.
IsOkObject(e) == e.t = "dict" /\ "error" \notin DOMAIN e.d

PopupFields == {"validTime", "generatedTime", "primary", "secondary"}

\* C5 (as claimed): a station whose entry is a JSON object of a 2xx response
\* gets a blue marker whatever expected members the object lacks, an empty
\* object included, with N/A for each missing member, and is counted as
\* successful.
C5_SparsePayloadStaysOk ==
  /\ \A i \in 1..Len(markers) :
       (HasEntry(i) /\ IsOkObject(EntryOf(i)))
         => /\ markers[i].color = "blue"
            /\ \A f \in PopupFields :
                 f \notin DOMAIN EntryOf(i).d => markers[i][f] = "N/A"
  /\ rpc \in {"viewer", "done"}
       => counts.successful =
            Cardinality({i \in 1..Len(stations_df) :
                           HasEntry(i) /\ IsOkObject(EntryOf(i))})

\* The observations of the selected station, when its entry has a series.
HasSeries ==
  /\ selected_station \in DOMAIN noaa_data
  /\ IsOkObject(noaa_data[selected_station])
  /\ "observed" \in DOMAIN noaa_data[selected_station].d
  /\ noaa_data[selected_station].d["observed"].t = "dict"
  /\ "data" \in DOMAIN noaa_data[selected_station].d["observed"].d
  /\ noaa_data[selected_station].d["observed"].d["data"].t = "list"

SelectedSeries == noaa_data[selected_station].d["observed"].d["data"].items

\* The observations of a series whose timestamp parses.
Parseable(series) ==
  SelectSeq(series, LAMBDA o : ToDatetime(Cell(o, "validTime")) # NaT)

\* C6 (as claimed): the chart plots exactly the observations whose timestamp
\* parses, in ascending order of time, whatever the order of the input.
C6_ChartSortedByTime ==
  (rpc = "done" /\ detail.kind = "chart") =>
    LET pts == detail.points
        good == Parseable(SelectedSeries)
    IN /\ Len(pts) = Len(good)
       /\ \A i \in 1..Len(good) :
            \E j \in 1..Len(pts) : pts[j].time = ToDatetime(Cell(good[i], "validTime"))
       /\ \A i, j \in 1..Len(pts) : i < j => pts[i].time <= pts[j].time

\* C7 (as claimed): when the selected station is missing from the batch, is
\* an error entry, has no observed series, or has a series with no
\* observation left once the unparseable timestamps are dropped, the viewer
\* shows its no-data message and draws no chart.
C7_NoDataStateShown ==
  (rpc = "done" /\ (~HasSeries \/ Parseable(SelectedSeries) = <<>>))
    => detail.kind = "warning"

\* C8 (as claimed): the page is drawn without an error for every batch; a
\* station absent from the batch gets a red marker with the no-data note, a
\* station with an error entry a red marker with its message, and a marker
\* is blue only for a successful entry of that station.
C8_PageNeverRaises ==
  /\ rpc # "raised"
  /\ \A i \in 1..Len(markers) :
       /\ ~HasEntry(i)
            => markers[i].color = "red" /\ markers[i].note = "No API data"
       /\ (HasEntry(i) /\ IsErr(EntryOf(i)))
            => /\ markers[i].color = "red"
               /\ markers[i].error = EntryOf(i).d["error"]
       /\ markers[i].color = "blue"
            => HasEntry(i) /\ IsOkObject(EntryOf(i))

(***************************************************************************)
(* Claims about the script runs and the memo (specification Spec)           *)
(***************************************************************************)

\* The step in which session s passes lines 71-75 and reads its batch.
ReadStep(s) == sess[s].pc = "line71" /\ sess'[s].pc # "line71"

\* C1 (as claimed): every run whose refresh flag is set starts a new fetch
\* cycle, whatever the age of the memoised batch.
C1_RefreshAlwaysFetches ==
  [][\A s \in Sessions :
       (ReadStep(s) /\ sess[s].refresh) => fetchCount' = fetchCount + 1]_vars

\* C2 (as claimed): a read that finds the session's batch older than the TTL
\* starts a fetch cycle, and no read hands the renderers a batch older than
\* the TTL.
C2_ExpiredBatchRefetched ==
  [][\A s \in Sessions :
       /\ (ReadStep(s) /\ sess[s].has /\ now - sess[s].data.at > TTL)
            => fetchCount' = fetchCount + 1
       /\ (ReadStep(s) /\ sess'[s].pc = "render")
            => now' - sess'[s].data.at <= TTL]_vars

\* The batch a read without refresh finds stored: the session's own, or for
\* a session that has none yet, the memo's.
StoredFor(s) == IF sess[s].has THEN sess[s].data ELSE memo.batch

InWindow(s) ==
  /\ sess[s].has \/ memo.has
  /\ now - StoredFor(s).at < TTL

\* C3: a read without refresh that finds a stored batch inside its TTL
\* window returns that very batch, starts no fetch cycle and leaves the
\* memo unchanged.
C3_SecondReadNoFetch ==
  [][\A s \in Sessions :
       (ReadStep(s) /\ ~sess[s].refresh /\ InWindow(s))
         => /\ sess'[s].pc = "render"
            /\ sess'[s].has
            /\ sess'[s].data = StoredFor(s)
            /\ fetchCount' = fetchCount
            /\ memo' = memo]_vars

\* C3 witness: a session's second consecutive run without refresh has read,
\* inside the TTL window, the batch of the only fetch cycle there has been.
C3_Witness ==
  \E s \in Sessions :
    /\ sess[s].pc = "render"
    /\ ~sess[s].refresh
    /\ sess[s].lastPlain
    /\ sess[s].data.gen = 1
    /\ now > sess[s].data.at
    /\ now - sess[s].data.at < TTL
    /\ fetchCount = 1

\* C10 (as claimed): once the run that handles a refresh pressed during an
\* in-flight fetch cycle has read its batch, the stored batch is that of a
\* cycle started later than the one that was in flight.
C10_LaterCycleWins ==
  \A s \in Sessions :
    (sess[s].pc = "render" /\ sess[s].refresh /\ sess[s].during > 0)
      => sess[s].data.gen > sess[s].during

====
